---- MODULE Spec2Model ----
(***************************************************************************)
(* Model of flytekit/annotated/workflow.py: the `workflow` decorator       *)
(* (compile-time trace of a workflow function into an SdkWorkflow) and     *)
(* Workflow.__call__ / Workflow._local_execute (local replay).             *)
(*                                                                         *)
(* The FlyteContext stack, the Promise type, the task call sites and the   *)
(* literal conversions live outside workflow.py; they are modelled from    *)
(* their documented contract.                                              *)
(***************************************************************************)
EXTENDS Integers, Sequences, FiniteSets, TLC

VARIABLES ctxStack, frames, defs, last

vars == <<ctxStack, frames, defs, last>>

(* ------------------------------ bounds -------------------------------- *)
MaxOut == 2      \* declared outputs of a workflow function: 0..MaxOut
MaxRet == 2      \* length of a tuple returned by a function body: 0..MaxRet
MaxNodes == 1    \* task call sites executed by one run of a body
MaxDefs == 2     \* workflow definitions kept
MaxDepth == 2    \* nested body runs (declarations / local executions)
MaxKw == 1       \* keyword arguments of one invocation
MaxArgs == 1     \* positional arguments of one invocation

(* ------------------------------ values -------------------------------- *)
ParamLists == {<<"a">>}
KwNames == {"a", "z"}
OutNames == <<"o0", "o1", "o2", "o3">>

Val(tag, n) == [tag |-> tag, n |-> n]
NativeValues == {Val("int", 1), Val("str", 1)}
TaskLiterals == {Val("Literal", 2)}
NoVal == Val("None", 0)

Pop(s) == SubSeq(s, 1, Len(s) - 1)
Top(s) == s[Len(s)]
EmptyMap == [k \in {} |-> NoVal]

RECURSIVE SeqsUpTo(_, _)
SeqsUpTo(S, n) ==
    IF n = 0 THEN {<<>>}
    ELSE LET shorter == SeqsUpTo(S, n - 1)
         IN  shorter \cup {Append(s, x) : s \in shorter, x \in S}

(* Workflow functions: declared inputs (all of type int) and the number of
   declared outputs; the body itself is a nondeterministic run of steps.   *)
Fns == [inputs : ParamLists, nout : 0..MaxOut]

InputNames(fn) == {fn.inputs[i] : i \in 1..Len(fn.inputs)}

(* list(interface.outputs.keys()) *)
output_names(fn) == SubSeq(OutNames, 1, fn.nout)

(* Promise(var, val): val is a Literal (ready) or a NodeOutput (pending). *)
Promise(var, val) == [var |-> var, val |-> val]

(* Value returned by a function body. *)
Ret(shape, items) == [shape |-> shape, items |-> items]
RetNone == Ret("None", <<>>)

(* ------------------------- execution context -------------------------- *)
Ctx(mode, nodes) == [mode |-> mode, nodes |-> nodes]
BaseCtx == Ctx("UNINITIALIZED", <<>>)

(* ctx.compilation_state is not None *)
has_compilation_state(stk) == Top(stk).mode = "COMPILATION"

(* a compilation context opened inside another one *)
new_compilation_context_nested(stk) ==
    [ok |-> TRUE, stk |-> Append(stk, Ctx("COMPILATION", <<>>))]

(* ctx.new_compilation_context().__enter__ *)
new_compilation_context(stk) ==
    IF has_compilation_state(stk)
    THEN [ok |-> FALSE, stk |-> stk]
    ELSE [ok |-> TRUE, stk |-> Append(stk, Ctx("COMPILATION", <<>>))]

(* ctx.new_execution_context(mode=LOCAL_WORKFLOW_EXECUTION).__enter__ *)
new_execution_context(stk) == Append(stk, Ctx("LOCAL_EXECUTION", <<>>))

(* __exit__ of either context manager *)
context_exit(stk) == Pop(stk)

(* __exit__ skipped when the block raises *)
with_exit_leaky(stk, ok) == IF ok THEN context_exit(stk) ELSE stk

(* the `with` statements of wrapper and __call__: leaving the block runs
   __exit__ whether the block returned (ok) or raised (~ok).              *)
with_exit(stk, ok) == context_exit(stk)

(* ------------------------------ events -------------------------------- *)
(* `last` is what the most recent step did and what its caller observed:
   the operation, the error raised ("" for none), whether a warning was
   logged, the value returned, and the step's inputs.                      *)
Value(kind, bare, map) == [kind |-> kind, bare |-> bare, map |-> map]
NoValue == Value("None", NoVal, EmptyMap)
NoFn == [inputs |-> <<>>, nout |-> 0]

Event(op, err, logged, value, fn, ret, nargs, kwargs) ==
    [op |-> op, err |-> err, logged |-> logged, value |-> value, fn |-> fn,
     ret |-> ret, nargs |-> nargs, kwargs |-> kwargs]

(* A running body: the function, the keyword arguments it was called with,
   the task call sites it has executed, and the context stack saved when
   the operation that runs it started.                                     *)
Frame(kind, fn, args, calls, entry) ==
    [kind |-> kind, fn |-> fn, args |-> args, calls |-> calls, entry |-> entry]

Init ==
    /\ ctxStack = <<BaseCtx>>
    /\ frames = <<>>
    /\ defs = <<>>
    /\ last = Event("init", "", FALSE, NoValue, NoFn, RetNone, 0, <<>>)

(* Promises of the keyword arguments a body was called with. *)
ArgPromises(args) == {Promise(k, args[k]) : k \in DOMAIN args}

Rets(promises) ==
    {RetNone} \cup {Ret("single", <<p>>) : p \in promises}
              \cup {Ret("tuple", t) : t \in SeqsUpTo(promises, MaxRet)}

(* ------------------------ workflow declaration ------------------------ *)
GLOBAL_INPUT_NODE_ID == 0

(* input_kwargs of wrapper: one reference to the global input node per
   declared input.                                                         *)
input_kwargs(fn) ==
    [k \in InputNames(fn) |-> Val("NodeOutput", GLOBAL_INPUT_NODE_ID)]

(* Node registered by a task call site during a compilation pass. *)
Node(id) == [id |-> id]

(* Promises a body can return while it is traced: its inputs and the
   outputs of the nodes registered so far.                                 *)
CompilePromises(args, nodes) ==
    ArgPromises(args)
      \cup {Promise("o0", Val("NodeOutput", nodes[i].id)) : i \in 1..Len(nodes)}

Binding(var, promise) == [var |-> var, binding |-> promise]

WORKFLOW_ID == [resource_type |-> "WORKFLOW", project |-> "proj",
                domain |-> "dom", name |-> "moreblah", version |-> "1"]

SdkWorkflow(fn, nodes, bindings) ==
    [id |-> WORKFLOW_ID, interface |-> fn, nodes |-> nodes,
     output_bindings |-> bindings]

(* wrapper, lines 124-134: the output bindings built from the value the
   traced body returned.  enumerate() of None or of a single Promise is a
   TypeError; output_names[i] past the declared outputs is an IndexError. *)
make_bindings(fn, ret) ==
    LET names == output_names(fn) IN
    IF Len(names) = 0 THEN [err |-> "", bindings |-> <<>>]
    ELSE IF ret.shape # "tuple" THEN [err |-> "TypeError", bindings |-> <<>>]
    ELSE IF Len(ret.items) > Len(names)
         THEN [err |-> "IndexError", bindings |-> <<>>]
    ELSE [err |-> "",
          bindings |-> [i \in 1..Len(ret.items) |->
                          Binding(names[i], ret.items[i])]]

(* all_nodes = []; all_nodes.extend(comp_ctx.compilation_state.nodes) *)
all_nodes(stk) == Top(stk).nodes

(* wrapper up to the call of fn: the interface, the compilation context,
   the input references.                                                   *)
wrapper_enter(fn) ==
    LET r == new_compilation_context(ctxStack) IN
    IF r.ok
    THEN /\ Len(frames) < MaxDepth
         /\ Len(defs) < MaxDefs
         /\ ctxStack' = r.stk
         /\ frames' = Append(frames, Frame("declare", fn, input_kwargs(fn), 0,
                                           ctxStack))
         /\ defs' = defs
         /\ last' = Event("declare:enter", "", FALSE, NoValue, fn, RetNone,
                          0, <<>>)
    ELSE /\ last' = Event("declare:nested", "UnsupportedNesting", FALSE,
                          NoValue, fn, RetNone, 0, <<>>)
         /\ UNCHANGED <<ctxStack, frames, defs>>

(* fn returned inside the `with`: the nodes are copied, the context is
   left, the bindings and the SdkWorkflow are built.                       *)
wrapper_return ==
    /\ frames # <<>>
    /\ Top(frames).kind = "declare"
    /\ LET fn == Top(frames).fn
           nodes == all_nodes(ctxStack)
       IN  \E ret \in Rets(CompilePromises(Top(frames).args, nodes)) :
             LET b == make_bindings(fn, ret) IN
             /\ ctxStack' = with_exit(ctxStack, TRUE)
             /\ frames' = Pop(frames)
             /\ defs' = IF b.err = ""
                        THEN Append(defs, SdkWorkflow(fn, nodes, b.bindings))
                        ELSE defs
             /\ last' = Event("declare:return", b.err, FALSE, NoValue, fn, ret,
                              0, <<>>)

(* fn raised inside the `with`: the error leaves wrapper. *)
wrapper_raise ==
    /\ frames # <<>>
    /\ Top(frames).kind = "declare"
    /\ ctxStack' = with_exit(ctxStack, FALSE)
    /\ frames' = Pop(frames)
    /\ defs' = defs
    /\ last' = Event("declare:raise", "BodyError", FALSE, NoValue,
                     Top(frames).fn, RetNone, 0, <<>>)

(* A task call site inside a running body: registers a node when a
   compilation state is current, computes a value otherwise.               *)
register_node(ctx) ==
    IF ctx.mode = "COMPILATION"
    THEN [ctx EXCEPT !.nodes = Append(@, Node(Len(@) + 1))]
    ELSE ctx

task_call ==
    /\ frames # <<>>
    /\ Top(frames).calls < MaxNodes
    /\ ctxStack' = [ctxStack EXCEPT ![Len(ctxStack)] = register_node(@)]
    /\ frames' = [frames EXCEPT ![Len(frames)].calls = @ + 1]
    /\ defs' = defs
    /\ last' = Event("task", "", FALSE, NoValue, Top(frames).fn, RetNone, 0,
                     <<>>)

(* ------------------------- workflow invocation ------------------------ *)
Kw(k, v) == [k |-> k, v |-> v]

(* **kwargs of one invocation: distinct keywords, in call order. *)
KwargsSet ==
    {s \in SeqsUpTo({Kw(k, v) : k \in KwNames, v \in NativeValues}, MaxKw) :
        \A i, j \in 1..Len(s) : i # j => s[i].k # s[j].k}

(* flytekit_engine.python_value_to_idl_literal for a declared int input *)
python_value_to_idl_literal(v) ==
    IF v.tag = "int"
    THEN [err |-> "", literal |-> Val("Literal", v.n)]
    ELSE [err |-> "ConversionError", literal |-> NoVal]

(* flytekit_engine.idl_literal_to_python_value *)
idl_literal_to_python_value(l) == Val("int", l.n)

(* flytekit_engine.idl_literal_map_to_python_value *)
idl_literal_map_to_python_value(literals) ==
    [k \in DOMAIN literals |-> idl_literal_to_python_value(literals[k])]

(* _local_execute, lines 35-44: the dict comprehension over kwargs.items();
   interface.inputs[k] of an undeclared keyword is a KeyError.  The first
   failing item, in call order, ends the conversion.                       *)
RECURSIVE convert_from(_, _, _, _)
convert_from(fn, kwargs, i, acc) ==
    IF i > Len(kwargs) THEN [err |-> "", literals |-> acc]
    ELSE IF kwargs[i].k \notin InputNames(fn)
         THEN [err |-> "KeyError", literals |-> EmptyMap]
    ELSE LET c == python_value_to_idl_literal(kwargs[i].v) IN
         IF c.err # "" THEN [err |-> c.err, literals |-> EmptyMap]
         ELSE convert_from(fn, kwargs, i + 1,
                  [k \in DOMAIN acc \cup {kwargs[i].k} |->
                     IF k = kwargs[i].k THEN c.literal ELSE acc[k]])

convert_inputs(fn, kwargs) == convert_from(fn, kwargs, 1, EmptyMap)

(* the except clause logs and swallows the error *)
conversion_failure_swallowed(err) == [err |-> "", logged |-> TRUE]

(* _local_execute, lines 41-44: what the except clause lets the caller see
   of a conversion error: the error itself, after a warning is logged.     *)
conversion_failure(err) == [err |-> err, logged |-> TRUE]

(* every output name takes the first returned Promise *)
collect_outputs_first(fn, ret) ==
    LET names == output_names(fn)
        N == Len(names)
    IN  IF N > 1
        THEN IF ret.shape # "tuple"
             THEN [err |-> "TypeError", none |-> FALSE, literals |-> EmptyMap]
             ELSE IF Len(ret.items) < N
             THEN [err |-> "IndexError", none |-> FALSE, literals |-> EmptyMap]
             ELSE [err |-> "", none |-> FALSE,
                   literals |-> [k \in {names[i] : i \in 1..N} |->
                                   ret.items[1].val]]
        ELSE IF N = 1
        THEN IF ret.shape # "single"
             THEN [err |-> "AttributeError", none |-> FALSE,
                   literals |-> EmptyMap]
             ELSE [err |-> "", none |-> FALSE,
                   literals |-> [k \in {names[1]} |-> ret.items[1].val]]
        ELSE [err |-> "", none |-> TRUE, literals |-> EmptyMap]

(* _local_execute, lines 54-63: the literal map assembled from the value
   the body returned.  Subscripting None or a Promise is a TypeError, a
   tuple shorter than the declared outputs an IndexError; `.val` of None or
   of a tuple is an AttributeError.                                        *)
collect_outputs(fn, ret) ==
    LET names == output_names(fn)
        N == Len(names)
        idx(k) == CHOOSE i \in 1..N : names[i] = k
    IN  IF N > 1
        THEN IF ret.shape # "tuple"
             THEN [err |-> "TypeError", none |-> FALSE, literals |-> EmptyMap]
             ELSE IF Len(ret.items) < N
             THEN [err |-> "IndexError", none |-> FALSE, literals |-> EmptyMap]
             ELSE [err |-> "", none |-> FALSE,
                   literals |-> [k \in {names[i] : i \in 1..N} |->
                                   ret.items[idx(k)].val]]
        ELSE IF N = 1
        THEN IF ret.shape # "single"
             THEN [err |-> "AttributeError", none |-> FALSE,
                   literals |-> EmptyMap]
             ELSE [err |-> "", none |-> FALSE,
                   literals |-> [k \in {names[1]} |-> ret.items[1].val]]
        ELSE [err |-> "", none |-> TRUE, literals |-> EmptyMap]

(* _local_execute, lines 54-66: the value handed back to the caller. *)
local_result(fn, ret) ==
    LET c == collect_outputs(fn, ret) IN
    IF c.err # "" THEN [err |-> c.err, value |-> NoValue]
    ELSE IF c.none THEN [err |-> "", value |-> NoValue]
    ELSE [err |-> "",
          value |-> Value("map", NoVal,
                          idl_literal_map_to_python_value(c.literals))]

(* len(args) > 1: one positional argument slips through *)
positional_rejected_above_one(nargs) == nargs > 1

(* __call__, line 70: len(args) > 0 *)
positional_rejected(nargs) == nargs > 0

(* the compilation-state test left out *)
nesting_rejected_never(stk) == FALSE

(* __call__, line 75: ctx.compilation_state is not None *)
nesting_rejected(stk) == has_compilation_state(stk)

(* the body replayed in a compilation context *)
call_context_compiling(stk) == Append(stk, Ctx("COMPILATION", <<>>))

(* __call__, line 80: the context the body is replayed in *)
call_context(stk) == new_execution_context(stk)

(* Promises a body can return while it is replayed locally: its inputs and
   the values computed by the task call sites it has executed.             *)
LocalPromises(args, calls) ==
    ArgPromises(args)
      \cup (IF calls > 0 THEN {Promise("o0", l) : l \in TaskLiterals} ELSE {})

(* Workflow.__call__ and _local_execute up to the call of the function.   *)
call(w, nargs, kwargs) ==
    LET fn == defs[w].interface
        stk == call_context(ctxStack)
        c == convert_inputs(fn, kwargs)
        f == conversion_failure(c.err)
    IN
    /\ defs' = defs
    /\ IF positional_rejected(nargs)
       THEN /\ last' = Event("call:reject", "NotAllowed", FALSE, NoValue, fn,
                             RetNone, nargs, kwargs)
            /\ UNCHANGED <<ctxStack, frames>>
       ELSE IF nesting_rejected(ctxStack)
       THEN /\ last' = Event("call:reject", "NotImplemented", FALSE, NoValue,
                             fn, RetNone, nargs, kwargs)
            /\ UNCHANGED <<ctxStack, frames>>
       ELSE IF c.err # ""
       THEN /\ last' = Event("call:convert", f.err, f.logged, NoValue, fn,
                             RetNone, nargs, kwargs)
            /\ ctxStack' = with_exit(stk, FALSE)
            /\ frames' = frames
       ELSE IF DOMAIN c.literals # InputNames(fn)
       THEN /\ last' = Event("call:bind", "MissingArgument", FALSE, NoValue,
                             fn, RetNone, nargs, kwargs)
            /\ ctxStack' = with_exit(stk, FALSE)
            /\ frames' = frames
       ELSE /\ Len(frames) < MaxDepth
            /\ last' = Event("call:enter", "", FALSE, NoValue, fn, RetNone,
                             nargs, kwargs)
            /\ ctxStack' = stk
            /\ frames' = Append(frames, Frame("call", fn, c.literals, 0,
                                              ctxStack))

(* The replayed body returned: the outputs are collected and converted,
   the LOCAL_EXECUTION context is left.                                    *)
local_return ==
    /\ frames # <<>>
    /\ Top(frames).kind = "call"
    /\ \E ret \in Rets(LocalPromises(Top(frames).args, Top(frames).calls)) :
         LET r == local_result(Top(frames).fn, ret) IN
         /\ ctxStack' = with_exit(ctxStack, r.err = "")
         /\ frames' = Pop(frames)
         /\ defs' = defs
         /\ last' = Event("call:return", r.err, FALSE, r.value, Top(frames).fn,
                          ret, 0, <<>>)

(* The replayed body raised: the error leaves __call__. *)
local_raise ==
    /\ frames # <<>>
    /\ Top(frames).kind = "call"
    /\ ctxStack' = with_exit(ctxStack, FALSE)
    /\ frames' = Pop(frames)
    /\ defs' = defs
    /\ last' = Event("call:raise", "BodyError", FALSE, NoValue, Top(frames).fn,
                     RetNone, 0, <<>>)

(* --------------------------- specification ---------------------------- *)
Next ==
    \/ \E fn \in Fns : wrapper_enter(fn)
    \/ wrapper_return
    \/ wrapper_raise
    \/ task_call
    \/ \E w \in 1..Len(defs), nargs \in 0..MaxArgs, kwargs \in KwargsSet :
         call(w, nargs, kwargs)
    \/ local_return
    \/ local_raise

Spec == Init /\ [][Next]_vars

(* ------------------------------ properties ---------------------------- *)
IsCallStart(e) ==
    e.op \in {"call:reject", "call:convert", "call:bind", "call:enter"}

IsDeclareStart(e) == e.op \in {"declare:enter", "declare:nested"}

(* number of values a body returned *)
Returned(ret) ==
    IF ret.shape = "None" THEN 0
    ELSE IF ret.shape = "single" THEN 1 ELSE Len(ret.items)

(* C1, as stated: every invocation made while a compilation state is
   current, whatever its arguments, raises the unsupported-nesting error,
   enters no context and does not run the body.                            *)
C1_NestingAnyArguments ==
    [][(IsCallStart(last') /\ has_compilation_state(ctxStack))
         => /\ last'.err = "NotImplemented"
            /\ UNCHANGED <<ctxStack, frames>>]_vars

(* C1, amended: every invocation made while a compilation state is current
   fails without entering a context or running the body; it raises the
   unsupported-nesting error when it has no positional argument, and the
   positional-argument error when it has one.                              *)
C1_NestingRejected ==
    [][(IsCallStart(last') /\ has_compilation_state(ctxStack))
         => /\ last'.op = "call:reject"
            /\ last'.err = IF last'.nargs > 0 THEN "NotAllowed"
                                              ELSE "NotImplemented"
            /\ UNCHANGED <<ctxStack, frames>>]_vars

C1_Witness ==
    /\ last.op = "call:reject"
    /\ last.err = "NotImplemented"
    /\ last.kwargs # <<>>
    /\ has_compilation_state(ctxStack)

(* C2: an invocation with one or more positional arguments fails with the
   positional-argument error in every context mode, before a context is
   entered, an input converted or the body run; the context, the running
   bodies and the definitions are unchanged.                               *)
C2_PositionalRejected ==
    [][(IsCallStart(last') /\ last'.nargs > 0)
         => /\ last'.op = "call:reject"
            /\ last'.err = "NotAllowed"
            /\ ~last'.logged
            /\ UNCHANGED <<ctxStack, frames, defs>>]_vars

C2_Witness ==
    /\ last.op = "call:reject"
    /\ last.err = "NotAllowed"
    /\ has_compilation_state(ctxStack)

(* C3: a local invocation of a workflow with one declared output whose
   body returns one ready Promise returns the bare native value of that
   Promise.                                                                *)
C3_BareValue ==
    (last.op = "call:return" /\ last.fn.nout = 1 /\ last.ret.shape = "single")
      => /\ last.err = ""
         /\ last.value.kind = "bare"
         /\ last.value.bare = idl_literal_to_python_value(last.ret.items[1].val)

(* C4: a local invocation of a workflow with N > 1 declared outputs whose
   body returns exactly N values returns a mapping with exactly the
   declared output names as keys, the i-th name holding the native value
   of the i-th returned Promise.                                           *)
C4_PositionalMapping ==
    (/\ last.op = "call:return"
     /\ last.fn.nout > 1
     /\ last.ret.shape = "tuple"
     /\ Len(last.ret.items) = last.fn.nout)
      => LET names == output_names(last.fn) IN
         /\ last.err = ""
         /\ last.value.kind = "map"
         /\ DOMAIN last.value.map = {names[i] : i \in 1..Len(names)}
         /\ \A i \in 1..Len(names) :
              last.value.map[names[i]] =
                idl_literal_to_python_value(last.ret.items[i].val)

C4_Witness ==
    /\ last.op = "call:return"
    /\ last.err = ""
    /\ last.fn.nout = 2
    /\ Len(last.ret.items) = 2
    /\ last.ret.items[1].val # last.ret.items[2].val
    /\ last.value.kind = "map"

(* C5: a declaration with N >= 1 declared outputs whose body returns N
   Promises (one Promise when N = 1, an N-tuple otherwise) produces a
   definition with exactly N output bindings, the i-th carrying the i-th
   declared name and the i-th returned Promise.                            *)
C5_OutputBindings ==
    (/\ last.op = "declare:return"
     /\ last.fn.nout >= 1
     /\ \/ last.fn.nout = 1 /\ last.ret.shape = "single"
        \/ last.fn.nout > 1 /\ last.ret.shape = "tuple"
                            /\ Len(last.ret.items) = last.fn.nout)
      => /\ last.err = ""
         /\ defs # <<>>
         /\ Top(defs).output_bindings =
              [i \in 1..last.fn.nout |->
                 Binding(output_names(last.fn)[i], last.ret.items[i])]

(* C6: every declaration and every invocation, however it ends, leaves
   current exactly the context stack that was current when it started.     *)
C6_ContextRestored ==
    [][/\ Len(frames') < Len(frames) => ctxStack' = Top(frames).entry
       /\ (Len(frames') = Len(frames) /\ last'.op # "task")
            => ctxStack' = ctxStack]_vars

C6_Witness ==
    /\ last.op \in {"call:raise", "declare:raise"}
    /\ frames # <<>>
    /\ ctxStack = Append(Top(frames).entry, Ctx("LOCAL_EXECUTION", <<>>))

(* C7: a definition is built only by a declaration whose body returned;
   no later step changes a definition; and no step of an invocation adds a
   node to the node list of any context.                                   *)
C7_DefinitionImmutable ==
    [][/\ Len(defs') >= Len(defs)
       /\ \A i \in 1..Len(defs) : defs'[i] = defs[i]
       /\ Len(defs') # Len(defs)
            => last'.op = "declare:return" /\ Len(defs') = Len(defs) + 1
       /\ (frames # <<>> /\ Top(frames).kind = "call")
            => \A i \in 1..Len(ctxStack) :
                 i <= Len(ctxStack') => ctxStack'[i].nodes = ctxStack[i].nodes
       /\ IsCallStart(last')
            => \A i \in 1..Len(ctxStack') : i > Len(ctxStack)
                 => ctxStack'[i].mode # "COMPILATION"]_vars

C7_Witness ==
    /\ last.op = "call:return"
    /\ \E i \in 1..Len(last.ret.items) : last.ret.items[i].var = "o0"
    /\ defs # <<>>
    /\ defs[1].nodes # <<>>

(* C8: a declaration whose body returns a number of values different from
   the number of declared outputs fails, and no definition has fewer
   output bindings than declared outputs.                                  *)
C8_ArityMismatchFails ==
    /\ (last.op = "declare:return" /\ Returned(last.ret) # last.fn.nout)
         => last.err # ""
    /\ \A i \in 1..Len(defs) :
         Len(defs[i].output_bindings) >= defs[i].interface.nout

(* C9: a declaration started while a compilation state is current fails
   with the unsupported-nesting error, opens no context, runs no body and
   leaves the outer node list as it was.                                   *)
C9_NestedDeclarationRejected ==
    [][(IsDeclareStart(last') /\ has_compilation_state(ctxStack))
         => /\ last'.op = "declare:nested"
            /\ last'.err = "UnsupportedNesting"
            /\ UNCHANGED <<ctxStack, frames, defs>>]_vars

C9_Witness ==
    /\ last.op = "declare:nested"
    /\ has_compilation_state(ctxStack)
    /\ Top(ctxStack).nodes # <<>>

(* C10: a local invocation one of whose keyword arguments fails to convert
   (an undeclared keyword included) logs a warning and raises that same
   error; the body is not run and no value is returned.                    *)
C10_ConversionErrorPropagates ==
    [][(/\ IsCallStart(last')
        /\ last'.nargs = 0
        /\ ~has_compilation_state(ctxStack)
        /\ convert_inputs(last'.fn, last'.kwargs).err # "")
         => /\ last'.op = "call:convert"
            /\ last'.err = convert_inputs(last'.fn, last'.kwargs).err
            /\ last'.logged
            /\ last'.value = NoValue
            /\ UNCHANGED <<frames, defs>>]_vars

C10_Witness ==
    /\ last.op = "call:convert"
    /\ last.err = "ConversionError"
    /\ last.logged

====
